---- MODULE Spec2Model ----
(***************************************************************************)
(* A model of find_unwatched_media.py: the WatchStatusChecker class and    *)
(* the __main__ workflow.                                                  *)
(*                                                                         *)
(* Strings that the program takes apart (titles, GUIDs, paths) are         *)
(* sequences: a title is a sequence of one-character strings, a GUID is    *)
(* the sequence of its segments around "//", a path is a sequence of       *)
(* path fragments.  Strings the program only compares or copies are TLA+   *)
(* strings.  Python's None is the string "None" where the other values are *)
(* strings or numbers (NoneVal), and the record NoneRec where they are     *)
(* records.                                                                *)
(* An ID field of a library entry is a record that tells a string from a   *)
(* number (JsonStr, JsonInt), or NoneRec.                                  *)
(***************************************************************************)
EXTENDS Integers, Sequences, FiniteSets, TLC

VARIABLES
    \* ---- clean_title called on its own (SpecTitle)
    t_pc,               \* "in", "once", "twice"
    t_title,            \* the argument
    t_once,             \* clean_title(t_title)
    t_twice,            \* clean_title(clean_title(t_title))
    \* ---- get_arr_info called on its own (SpecArr)
    a_pc,               \* "in", "done"
    a_library,          \* self._movie_library
    a_metadata,         \* what get_metadata answers for the rating key
    a_result,           \* what get_arr_info returns
    \* ---- the __main__ workflow (Spec)
    pc,                 \* where the process is
    exit_status,        \* "running", then the process's exit status
    file_exists,        \* os.path.exists("unwatched_media.json")
    file_text,          \* the content of unwatched_media.json
    file_writes,        \* how often this run wrote unwatched_media.json
    skip_answer,        \* the answer to "Skip refresh? (y/n) ", NoneVal if not asked
    tz,                 \* the process's local time zone
    gets,               \* the GET requests issued
    tv_library,         \* self._tv_library
    movie_library,      \* self._movie_library
    raw_media_data,     \* movie_data + tv_show_data, as fetched
    all_media_data,     \* all_media_data
    idx,                \* the position of "for media in all_media_data"
    looked_up,          \* the rating keys get_arr_info was called with
    metadata,           \* the metadata the last get_arr_info call received
    unwatched_media,    \* self.unwatched_media
    counter,            \* delete_media's counter, also its loop position
    prompts,            \* the (y/n) prompts shown by delete_media, with answers
    deletes,            \* the DELETE requests issued, with their responses
    delete_stdout       \* the lines delete_media printed

titleVars == <<t_pc, t_title, t_once, t_twice>>
arrVars == <<a_pc, a_library, a_metadata, a_result>>
fileVars == <<file_exists, file_text, file_writes>>
fetchVars == <<tv_library, movie_library, raw_media_data, all_media_data>>
loopVars == <<idx, looked_up, metadata>>
deleteVars == <<counter, prompts, deletes, delete_stdout>>
mainVars == <<pc, exit_status, fileVars, skip_answer, tz, gets, fetchVars, loopVars,
              unwatched_media, deleteVars>>
vars == <<mainVars, titleVars, arrVars>>

NoneVal == "None"
NoneRec == [none |-> TRUE]

\* Sequences over S of length at most n.
SeqsUpTo(S, n) == UNION {[1..k -> S] : k \in 0..n}

(***************************************************************************)
(* clean_title: re.sub(r'\b\d{4}\b|[^\w\s]', '', title).strip()            *)
(***************************************************************************)
\* The characters titles are made of: a letter, a digit, the underscore
\* (a word character that is no digit), a blank and a punctuation mark.
Alphabet == {"a", "1", "_", " ", "."}

IsDigit(c) == c \in {"0", "1", "2", "3", "4", "5", "6", "7", "8", "9"}
IsSpace(c) == c \in {" "}
IsWord(c)  == IsDigit(c) \/ c = "_" \/ c \in {"a", "b", "z", "A", "B", "Z"}
IsPunct(c) == ~IsWord(c) /\ ~IsSpace(c)

\* \b\d{4}\b matches at position i of s.
YearAt(s, i) ==
    /\ i + 3 <= Len(s)
    /\ \A k \in 0..3 : IsDigit(s[i + k])
    /\ (i = 1 \/ ~IsWord(s[i - 1]))
    /\ (i + 4 > Len(s) \/ ~IsWord(s[i + 4]))

\* re.sub(pattern, '', s) from position i on: one left-to-right pass over
\* the original string, the matches removed.
RECURSIVE ReSub(_, _)
ReSub(s, i) ==
    IF i > Len(s) THEN <<>>
    ELSE IF YearAt(s, i) THEN ReSub(s, i + 4)
    ELSE IF IsPunct(s[i]) THEN ReSub(s, i + 1)
    ELSE <<s[i]>> \o ReSub(s, i + 1)

RECURSIVE LStrip(_)
LStrip(s) == IF s # <<>> /\ IsSpace(Head(s)) THEN LStrip(Tail(s)) ELSE s

RECURSIVE RStrip(_)
RStrip(s) ==
    IF s # <<>> /\ IsSpace(s[Len(s)]) THEN RStrip(SubSeq(s, 1, Len(s) - 1)) ELSE s

\* str.strip()
Strip(s) == RStrip(LStrip(s))

\* A slip: the year alternative left out of the pattern.
RECURSIVE ReSubPunctOnly(_, _)
ReSubPunctOnly(s, i) ==
    IF i > Len(s) THEN <<>>
    ELSE IF IsPunct(s[i]) THEN ReSubPunctOnly(s, i + 1)
    ELSE <<s[i]>> \o ReSubPunctOnly(s, i + 1)

clean_title_no_year(title) == Strip(ReSubPunctOnly(title, 1))

clean_title(title) == Strip(ReSub(title, 1))

(***************************************************************************)
(* SpecTitle: clean_title applied to a title, then to its own result.      *)
(***************************************************************************)
MaxTitleLen == 5

Titles == SeqsUpTo(Alphabet, MaxTitleLen)

InitTitle ==
    /\ t_pc = "in"
    /\ t_title \in Titles
    /\ t_once = <<>>
    /\ t_twice = <<>>

CleanOnce ==
    /\ t_pc = "in"
    /\ t_once' = clean_title(t_title)
    /\ t_pc' = "once"
    /\ UNCHANGED <<t_title, t_twice, arrVars, mainVars>>

CleanTwice ==
    /\ t_pc = "once"
    /\ t_twice' = clean_title(t_once)
    /\ t_pc' = "twice"
    /\ UNCHANGED <<t_title, t_once, arrVars, mainVars>>

NextTitle == CleanOnce \/ CleanTwice

HasStandaloneYear(s) == \E i \in 1..Len(s) : YearAt(s, i)
HasPunct(s) == \E i \in 1..Len(s) : IsPunct(s[i])

\* C9 (as claimed): clean_title is idempotent on every title.
C9_Idempotent == t_pc = "twice" => t_twice = t_once

\* C9 (amended): a second clean_title changes the result exactly when the
\* first result holds a standalone 4-digit run (removing punctuation joined
\* digits into one); titles without punctuation are never changed twice.
C9_IdempotentUnlessJoinedYear ==
    t_pc = "twice" =>
        /\ (t_twice = t_once) <=> ~HasStandaloneYear(t_once)
        /\ ~HasPunct(t_title) => t_twice = t_once

\* Digits separated by a dot, cleaned twice.
C9_Witness ==
    /\ t_pc = "twice"
    /\ t_title = <<"1", "1", ".", "1", "1">>
    /\ t_once = <<"1", "1", "1", "1">>
    /\ t_twice = <<>>

(***************************************************************************)
(* get_arr_info: the library entry of a watch-history item.                *)
(***************************************************************************)
\* The value of an ID field in a decoded listing: None (NoneRec), a string
\* or an integer.  In Python a string equals no integer and neither is None.
JsonStr(s) == [str |-> s]
JsonInt(n) == [int |-> n]

\* for key in ["imdbId", "tmdbId", "tvdbId"]
IdKeys == <<"imdbId", "tmdbId", "tvdbId">>

Range(f) == {f[k] : k \in DOMAIN f}

\* [guid.split('//')[1] for guid in metadata["guids"]]: a GUID is the
\* sequence of its segments around "//", and [1] is the second of them.
GuidsIds(guids) == {g[2] : g \in Range(guids)}

\* media.get(key) in guids_ids, for some key: guids_ids is a list of
\* strings, so only a string value can be in it; None and an integer are not.
ExactIdMatch(media, guids_ids) ==
    \E k \in DOMAIN IdKeys :
        media[IdKeys[k]] \in {JsonStr(s) : s \in guids_ids}

\* A slip: the first title match kept instead of the last.
FuzzyKeepFirst(fuzzy_title_match, media, title) ==
    IF clean_title(media.title) = clean_title(title) /\ fuzzy_title_match = NoneRec
    THEN media
    ELSE fuzzy_title_match

\* if clean_title(media["title"]) == clean_title(metadata["title"]):
\*     fuzzy_title_match = media
FuzzyUpdate(fuzzy_title_match, media, title) ==
    IF clean_title(media.title) = clean_title(title)
    THEN media
    ELSE fuzzy_title_match

\* for media in library: ..., from entry i on.
RECURSIVE ScanLibrary(_, _, _, _, _)
ScanLibrary(library, i, fuzzy_title_match, guids_ids, title) ==
    IF i > Len(library)
    THEN [how |-> IF fuzzy_title_match # NoneRec THEN "fuzzy" ELSE "nomatch",
          arr_info |-> fuzzy_title_match]
    ELSE LET media == library[i]
             fuzzy == FuzzyUpdate(fuzzy_title_match, media, title)
         IN  IF ExactIdMatch(media, guids_ids)
             THEN [how |-> "exact", arr_info |-> media]
             ELSE ScanLibrary(library, i + 1, fuzzy, guids_ids, title)

\* A slip: any other media type taken for a movie.
IsMediaTypeAny(media_type) == TRUE

\* The media types that have a library; any other ends in exit(1).
IsMediaType(media_type) == media_type \in {"show", "movie"}

\* The library of a media type that has one.
SelectLibrary(media_type, tv, movies) ==
    IF media_type = "show" THEN tv ELSE movies

\* get_arr_info, given the tautulli_media_metadata the GET answered.  how is "nometa",
\* "invalid" (the process exits with status 1), "exact", "fuzzy" or
\* "nomatch"; arr_info and media_type are what is returned.
get_arr_info(tautulli_media_metadata, tv, movies) ==
    IF tautulli_media_metadata = NoneRec
    THEN [how |-> "nometa", arr_info |-> NoneRec, media_type |-> NoneVal]
    ELSE LET guids_ids == GuidsIds(tautulli_media_metadata.guids)
             library == SelectLibrary(tautulli_media_metadata.media_type, tv, movies)
         IN  IF ~IsMediaType(tautulli_media_metadata.media_type)
             THEN [how |-> "invalid", arr_info |-> NoneRec, media_type |-> NoneVal]
             ELSE LET r == ScanLibrary(library, 1, NoneRec, guids_ids, tautulli_media_metadata.title)
                  IN  [how |-> r.how,
                       arr_info |-> r.arr_info,
                       media_type |-> IF r.how = "nomatch" THEN NoneVal
                                      ELSE tautulli_media_metadata.media_type]

(***************************************************************************)
(* SpecArr: get_arr_info on a movie library and one item's metadata.       *)
(***************************************************************************)
MaxLib == 2

Normal == <<"/movies/", "x">>
Protected == <<"/movies/", "x ", "(Do Not Delete)">>

\* Titles that normalize to "a" (two of them) and to "b".
TitleADot == <<"a", ".">>
TitleAYear == <<"a", " ", "1", "1", "1", "1">>
TitleB == <<"b">>

\* No ID, an ID sent as a string, and an ID sent as a number (as the
\* library services send tmdbId and tvdbId).
IdValues == {NoneRec, JsonStr("1"), JsonInt(2)}

\* What an entry of the movie listing holds besides its id.
EntryShapes ==
    [title : {TitleAYear, TitleB}, imdbId : IdValues, tmdbId : IdValues,
     tvdbId : IdValues]

\* A library entry: the listing's fields the program reads.
Entry(shape, id, path) ==
    [title |-> shape.title, imdbId |-> shape.imdbId, tmdbId |-> shape.tmdbId,
     tvdbId |-> shape.tvdbId, path |-> path, id |-> id,
     titleSlug |-> <<"slug", id>>, year |-> 2000 + id]

\* Libraries of at most MaxLib entries; an entry's id is its position.
ArrLibraries ==
    {[k \in DOMAIN shapes |-> Entry(shapes[k], k, Normal)] :
        shapes \in SeqsUpTo(EntryShapes, MaxLib)}

GuidImdb1 == <<"imdb:", "1">>
GuidTmdb2 == <<"tmdb:", "2">>

ArrGuids == {<<>>, <<GuidImdb1>>, <<GuidTmdb2>>, <<GuidImdb1, GuidTmdb2>>}

\* A show that every item would match, were the show library searched.
DecoyShow == Entry([title |-> TitleADot, imdbId |-> JsonStr("1"),
                    tmdbId |-> JsonStr("2"), tvdbId |-> NoneRec], 99, Normal)

InitArr ==
    /\ a_pc = "in"
    /\ a_library \in ArrLibraries
    /\ a_metadata \in [media_type : {"movie"}, guids : ArrGuids, title : {TitleADot}]
    /\ a_result = NoneRec

\* One call: the GET for the item's metadata (line 96), then the scan.
CallGetArrInfo ==
    /\ a_pc = "in"
    /\ gets' = gets + 1
    /\ a_result' = get_arr_info(a_metadata, <<DecoyShow>>, a_library)
    /\ a_pc' = "done"
    /\ UNCHANGED <<a_library, a_metadata, titleVars, pc, exit_status, fileVars,
                   skip_answer, tz, fetchVars, loopVars, unwatched_media, deleteVars>>

NextArr == CallGetArrInfo

\* The ID values an entry carries.
IdsOf(media) == {media.imdbId, media.tmdbId, media.tvdbId} \ {NoneRec}

LibraryIds(library) == UNION {IdsOf(library[k]) : k \in DOMAIN library}

\* An ID value as a GUID writes it: the string itself, the number in decimal.
Decimal(n) == <<"0", "1", "2", "3", "4", "5", "6", "7", "8", "9">>[n + 1]
IdText(v) == IF "str" \in DOMAIN v THEN v.str ELSE Decimal(v.int)
IdTexts(media) == {IdText(v) : v \in IdsOf(media)}
LibraryIdTexts(library) == UNION {IdTexts(library[k]) : k \in DOMAIN library}

\* The entries carrying a value.
Carriers(library, t) == {k \in DOMAIN library : t \in IdTexts(library[k])}

\* Every ID value of the library is carried once: by one entry, under one key.
DistinctIds(library) ==
    \A k \in DOMAIN library :
        /\ \A t \in IdTexts(library[k]) : Carriers(library, t) = {k}
        /\ Cardinality(IdTexts(library[k])) =
             Cardinality({key \in {"imdbId", "tmdbId", "tvdbId"} :
                             library[k][key] # NoneRec})

TitleMatches(library, title) ==
    {k \in DOMAIN library : clean_title(library[k].title) = clean_title(title)}

Max(S) == CHOOSE x \in S : \A y \in S : y <= x

\* The GUID ids as the values get_arr_info looks for in the library.
GuidValues(guids) == {JsonStr(s) : s \in GuidsIds(guids)}

\* C4 (as claimed): when the library's ID values are distinct and the GUID
\* ids hold exactly one of them, get_arr_info returns the entry carrying
\* that value (under any of the three keys), whatever the titles of earlier
\* entries.
C4_ExactIdWins ==
    (a_pc = "done" /\ DistinctIds(a_library)) =>
        \A t \in LibraryIdTexts(a_library) :
            (LibraryIdTexts(a_library) \cap GuidsIds(a_metadata.guids) = {t}) =>
                /\ a_result.how = "exact"
                /\ t \in IdTexts(a_result.arr_info)
                /\ a_result.arr_info = a_library[CHOOSE k \in Carriers(a_library, t) : TRUE]
                /\ a_result.media_type = "movie"

\* What get_arr_info does in the case of C4: the entry carrying the value
\* is returned when it carries it as a string, under any of the three keys;
\* when it carries it as a number there is no exact match, and the result
\* is the last title match or no match.
C4_ExactIdWinsForStrings ==
    (a_pc = "done" /\ DistinctIds(a_library)) =>
        \A t \in LibraryIdTexts(a_library) :
            (LibraryIdTexts(a_library) \cap GuidsIds(a_metadata.guids) = {t}) =>
                LET k == CHOOSE c \in Carriers(a_library, t) : TRUE
                    hits == TitleMatches(a_library, a_metadata.title)
                IN  IF JsonStr(t) \in IdsOf(a_library[k])
                    THEN /\ a_result.how = "exact"
                         /\ a_result.arr_info = a_library[k]
                         /\ a_result.media_type = "movie"
                    ELSE IF hits = {}
                    THEN /\ a_result.how = "nomatch"
                         /\ a_result.arr_info = NoneRec
                    ELSE /\ a_result.how = "fuzzy"
                         /\ a_result.arr_info = a_library[Max(hits)]

\* An earlier entry matches by title, a later one carries the GUID's id as
\* a string under tmdbId: the later one is returned.
C4_StringWitness ==
    /\ a_pc = "done"
    /\ Len(a_library) = 2
    /\ DistinctIds(a_library)
    /\ 1 \in TitleMatches(a_library, a_metadata.title)
    /\ IdsOf(a_library[1]) = {}
    /\ a_library[2].tmdbId = JsonStr("1")
    /\ a_library[2].title = TitleB
    /\ GuidsIds(a_metadata.guids) = {"1"}
    /\ a_result.arr_info = a_library[2]

\* The same library with the id as a number under tmdbId: the earlier
\* entry, which matches by title only, is returned.
C4_NumberWitness ==
    /\ a_pc = "done"
    /\ Len(a_library) = 2
    /\ DistinctIds(a_library)
    /\ 1 \in TitleMatches(a_library, a_metadata.title)
    /\ IdsOf(a_library[1]) = {}
    /\ a_library[2].tmdbId = JsonInt(2)
    /\ a_library[2].title = TitleB
    /\ GuidsIds(a_metadata.guids) = {"2"}
    /\ a_result.how = "fuzzy"
    /\ a_result.arr_info = a_library[1]

\* C5: with no ID of the library among the GUID ids, get_arr_info returns
\* the last entry whose normalized title equals the item's, and no match
\* when there is none.
C5_FuzzyLastWins ==
    (a_pc = "done" /\ LibraryIds(a_library) \cap GuidValues(a_metadata.guids) = {}) =>
        LET hits == TitleMatches(a_library, a_metadata.title)
        IN  IF hits = {}
            THEN /\ a_result.how = "nomatch"
                 /\ a_result.arr_info = NoneRec
                 /\ a_result.media_type = NoneVal
            ELSE /\ a_result.how = "fuzzy"
                 /\ a_result.arr_info = a_library[Max(hits)]
                 /\ a_result.media_type = "movie"

\* Two entries match by title and none by ID: the second is returned.
C5_Witness ==
    /\ a_pc = "done"
    /\ TitleMatches(a_library, a_metadata.title) = {1, 2}
    /\ LibraryIds(a_library) \cap GuidValues(a_metadata.guids) = {}
    /\ GuidsIds(a_metadata.guids) # {}
    /\ a_result.how = "fuzzy"
    /\ a_result.arr_info = a_library[2]
    /\ a_result.arr_info # a_library[1]

(***************************************************************************)
(* The __main__ workflow: refresh or skip, reconcile, save, load, delete.  *)
(***************************************************************************)
\* self.args, after __init__ found all six values present.
args ==
    [tautulli_host |-> "http://tautulli", tautulli_token |-> "tk",
     sonarr_host |-> "http://sonarr", sonarr_token |-> "sk",
     radarr_host |-> "http://radarr", radarr_token |-> "rk"]

\* str.lower() on the answers an operator gives.
Lower(answer) ==
    CASE answer = "Y" -> "y"
      [] answer = "N" -> "n"
      [] answer = "YES" -> "yes"
      [] OTHER -> answer

\* ---- the environment: what the services and the operator may answer
MaxMedia == 2

\* datetime.now(), in epoch seconds.
Now == 6000000
Days == 60
SecondsPerDay == 86400

\* None among numbers (last_played).
NoneInt == -1

\* A last_played timestamp of an item that was played.
PlayedAt == Now - 1000

\* A time zone: its UTC offset, in seconds, before and from a transition.
Utc == [at |-> 0, before |-> 0, after |-> 0]

\* The clocks went back an hour 30 days ago (the end of summer time), or
\* forward (its start).
FallBack == [at |-> Now - 30 * SecondsPerDay, before |-> 7200, after |-> 3600]
SpringForward == [at |-> Now - 30 * SecondsPerDay, before |-> 3600, after |-> 7200]

Zones == {Utc, FallBack, SpringForward}

\* The zone's UTC offset at epoch second t.
UtcOffset(zone, t) == IF t < zone.at THEN zone.before ELSE zone.after

\* datetime.fromtimestamp(t), datetime.now(): a naive local datetime, as
\* seconds on the zone's wall clock.
FromTimestamp(zone, t) == t + UtcOffset(zone, t)

\* The latest added_at the filter keeps in a zone, and one second later.
AddedAtValues(zone) ==
    {FromTimestamp(zone, Now) - Days * SecondsPerDay - zone.before,
     FromTimestamp(zone, Now) - Days * SecondsPerDay - zone.before + 1}

\* The title Tautulli lists for rating key k.
MediaTitle(k) == [j \in 1..k |-> "m"]

MediaShapes(zone) ==
    [last_played : {NoneInt, 0, PlayedAt}, added_at : AddedAtValues(zone)]

\* What the two get_library_media_info calls answer, concatenated: at most
\* MaxMedia entries; the rating key of an entry is its position.
MediaLists(zone) ==
    {[k \in DOMAIN shapes |->
        [rating_key |-> k, title |-> MediaTitle(k),
         last_played |-> shapes[k].last_played, added_at |-> shapes[k].added_at]] :
        shapes \in SeqsUpTo(MediaShapes(zone), MaxMedia)}

MovieOk == Entry([title |-> TitleAYear, imdbId |-> JsonStr("1"), tmdbId |-> NoneRec,
                  tvdbId |-> NoneRec], 42, Normal)
MovieTitleProtected == Entry([title |-> TitleAYear, imdbId |-> NoneRec,
                  tmdbId |-> NoneRec, tvdbId |-> NoneRec], 43, Protected)
MovieIdProtected == Entry([title |-> TitleB, imdbId |-> JsonStr("1"), tmdbId |-> NoneRec,
                  tvdbId |-> NoneRec], 44, Protected)
ShowOk == Entry([title |-> TitleAYear, imdbId |-> NoneRec, tmdbId |-> NoneRec,
                 tvdbId |-> JsonStr("1")], 7, Normal)

\* What GET /api/v3/movie/ and GET /api/v3/series/ may answer.
MovieLibraries == {<<>>, <<MovieOk>>, <<MovieOk, MovieTitleProtected>>,
                   <<MovieIdProtected>>}
ShowLibraries == {<<>>, <<ShowOk>>}

\* What get_metadata may answer: no data, or an item's metadata.
MetadataAnswers ==
    {NoneRec} \cup
    [media_type : {"movie", "show", "artist"},
     guids : {<<>>, <<GuidImdb1>>},
     title : {TitleADot}]

SkipAnswers == {"n", "N", "y", ""}
DeleteAnswers == {"Y", "n", "yes"}

\* A DELETE that raised instead of answering (no status code).
NoResponse == 0
DeleteResponses == {200, 404, NoResponse}

\* ---- the result file
ItemKeys == <<"title", "path", "id", "type", "url", "year">>

\* json.dump of a list of items: each a sequence of key/value pairs.
json_dump(items) ==
    [k \in DOMAIN items |-> [j \in DOMAIN ItemKeys |-> <<ItemKeys[j], items[k][ItemKeys[j]]>>]]

JsonValue(object, key) == (CHOOSE pair \in Range(object) : pair[1] = key)[2]

\* json.load of the file's text.
json_load(text) ==
    [k \in DOMAIN text |->
        [title |-> JsonValue(text[k], "title"), path |-> JsonValue(text[k], "path"),
         id |-> JsonValue(text[k], "id"), type |-> JsonValue(text[k], "type"),
         url |-> JsonValue(text[k], "url"), year |-> JsonValue(text[k], "year")]]

\* An item an earlier run stored.
OldItem(id) ==
    [title |-> <<"o", "l", "d">>, path |-> Normal, id |-> id, type |-> "movie",
     url |-> <<args.radarr_host, "/movie/", <<"slug", id>> >>, year |-> 2000 + id]

OldLists == {<<>>, <<OldItem(5)>>, <<OldItem(5), OldItem(6)>>}

\* ---- get_unwatched_media
\* A slip: the comparison turned around.
OldEnoughReversed(added_at, zone) ==
    FromTimestamp(zone, added_at) >= FromTimestamp(zone, Now) - Days * SecondsPerDay

\* datetime.fromtimestamp(int(added_at)) <= datetime.now() - timedelta(days=60)
\* Both sides are naive local datetimes: 60 days on the local wall clock.
OldEnough(added_at, zone) ==
    FromTimestamp(zone, added_at) <= FromTimestamp(zone, Now) - Days * SecondsPerDay

IsOldEnough(item) == OldEnough(item.added_at, tz)

\* A slip: "played" and "never played" exchanged.
NeverPlayedInverted(last_played) == ~(last_played = NoneInt \/ last_played = 0)

\* media['last_played'] is None or int(media['last_played']) == 0
NeverPlayed(last_played) == last_played = NoneInt \/ last_played = 0

\* A slip: the protection test left out.
IsProtectedNever(path) == FALSE

\* "(Do Not Delete)" in path
IsProtected(path) == \E k \in DOMAIN path : path[k] = "(Do Not Delete)"

\* The item appended for media, resolved to arr_info.
UnwatchedItem(media, arr_info, media_type) ==
    [title |-> media.title, path |-> arr_info.path, id |-> arr_info.id,
     type |-> media_type,
     url |-> IF media_type = "show"
             THEN <<args.sonarr_host, "/series/", arr_info.titleSlug>>
             ELSE <<args.radarr_host, "/movie/", arr_info.titleSlug>>,
     year |-> arr_info.year]

\* ---- delete_media
\* A slip: anything but "n" taken for a yes.
ConfirmsUnlessNo(answer) == Lower(answer) # "n"

\* input(...).lower() == "y"
Confirms(answer) == Lower(answer) = "y"

delete_url(media) ==
    IF media.type = "show"
    THEN <<args.sonarr_host, "/api/v3/series/", media.id, "?apikey=",
           args.sonarr_token, "&deleteFiles=true">>
    ELSE <<args.radarr_host, "/api/v3/movie/", media.id, "?apikey=",
           args.radarr_token, "&deleteFiles=true">>

\* ---- __main__
\* A slip: the refresh skipped unless the file is missing.
RefreshesOnlyWithoutFile(exists, answer) == ~exists

\* not os.path.exists("unwatched_media.json") or input(...).lower() == "n"
Refreshes(exists, answer) == ~exists \/ Lower(answer) = "n"

InitMain ==
    /\ pc = "main"
    /\ exit_status = "running"
    /\ file_exists \in BOOLEAN
    /\ file_text \in IF file_exists THEN {json_dump(l) : l \in OldLists} ELSE {<<>>}
    /\ file_writes = 0
    /\ skip_answer = NoneVal
    /\ tz \in Zones
    /\ gets = 0
    /\ tv_library = <<>>
    /\ movie_library = <<>>
    /\ raw_media_data = <<>>
    /\ all_media_data = <<>>
    /\ idx = 0
    /\ looked_up = {}
    /\ metadata = NoneRec
    /\ unwatched_media = <<>>
    /\ counter = 0
    /\ prompts = <<>>
    /\ deletes = <<>>
    /\ delete_stdout = <<>>

\* __main__: no result file, so no prompt, and the refresh runs.
MainNoFile ==
    /\ pc = "main"
    /\ ~file_exists
    /\ pc' = IF Refreshes(file_exists, NoneVal) THEN "grab" ELSE "load"
    /\ UNCHANGED <<exit_status, fileVars, skip_answer, tz, gets, fetchVars, loopVars,
                   unwatched_media, deleteVars, titleVars, arrVars>>

\* __main__: the result file exists and the operator answers the prompt.
MainSkipPrompt ==
    /\ pc = "main"
    /\ file_exists
    /\ \E answer \in SkipAnswers :
        /\ skip_answer' = answer
        /\ pc' = IF Refreshes(file_exists, answer) THEN "grab" ELSE "load"
    /\ UNCHANGED <<exit_status, fileVars, tz, gets, fetchVars, loopVars,
                   unwatched_media, deleteVars, titleVars, arrVars>>

\* _grab_content_library: one GET to Sonarr, one to Radarr.
GrabContentLibrary ==
    /\ pc = "grab"
    /\ tv_library' \in ShowLibraries
    /\ movie_library' \in MovieLibraries
    /\ gets' = gets + 2
    /\ pc' = "fetch"
    /\ UNCHANGED <<exit_status, fileVars, skip_answer, tz, raw_media_data, all_media_data,
                   loopVars, unwatched_media, deleteVars, titleVars, arrVars>>

\* get_tautulli_data(1) and get_tautulli_data(2), concatenated.
FetchSections ==
    /\ pc = "fetch"
    /\ raw_media_data' \in MediaLists(tz)
    /\ all_media_data' = raw_media_data'
    /\ gets' = gets + 2
    /\ pc' = "filter"
    /\ UNCHANGED <<exit_status, fileVars, skip_answer, tz, tv_library, movie_library,
                   loopVars, unwatched_media, deleteVars, titleVars, arrVars>>

\* The entries added at least 60 days ago are kept.
FilterRecent ==
    /\ pc = "filter"
    /\ all_media_data' = SelectSeq(all_media_data, IsOldEnough)
    /\ idx' = 1
    /\ pc' = "loop"
    /\ UNCHANGED <<exit_status, fileVars, skip_answer, tz, gets, tv_library, movie_library,
                   raw_media_data, looked_up, metadata, unwatched_media, deleteVars,
                   titleVars, arrVars>>

\* One pass of "for media in all_media_data" on an item that was played.
LoopPlayed ==
    /\ pc = "loop"
    /\ idx <= Len(all_media_data)
    /\ ~NeverPlayed(all_media_data[idx].last_played)
    /\ idx' = idx + 1
    /\ UNCHANGED <<pc, exit_status, fileVars, skip_answer, tz, gets, fetchVars, looked_up,
                   metadata, unwatched_media, deleteVars, titleVars, arrVars>>

\* One pass on an item never played: get_arr_info (a GET for its metadata),
\* then exit(1), a skip, or an item appended.
LoopNeverPlayed ==
    /\ pc = "loop"
    /\ idx <= Len(all_media_data)
    /\ NeverPlayed(all_media_data[idx].last_played)
    /\ \E answer \in MetadataAnswers :
        LET media == all_media_data[idx]
            r == get_arr_info(answer, tv_library, movie_library)
        IN  /\ metadata' = answer
            /\ looked_up' = looked_up \cup {media.rating_key}
            /\ gets' = gets + 1
            /\ IF r.how = "invalid"
               THEN /\ pc' = "exit1"
                    /\ exit_status' = "1"
                    /\ UNCHANGED <<idx, unwatched_media>>
               ELSE /\ idx' = idx + 1
                    /\ unwatched_media' =
                         IF r.arr_info # NoneRec /\ ~IsProtected(r.arr_info.path)
                         THEN Append(unwatched_media,
                                     UnwatchedItem(media, r.arr_info, r.media_type))
                         ELSE unwatched_media
                    /\ UNCHANGED <<pc, exit_status>>
    /\ UNCHANGED <<fileVars, skip_answer, tz, fetchVars, deleteVars, titleVars, arrVars>>

\* get_unwatched_media returns: its locals are gone.
LoopReturn ==
    /\ pc = "loop"
    /\ idx > Len(all_media_data)
    /\ raw_media_data' = <<>>
    /\ all_media_data' = <<>>
    /\ idx' = 0
    /\ looked_up' = {}
    /\ metadata' = NoneRec
    /\ pc' = "notify"
    /\ UNCHANGED <<exit_status, fileVars, skip_answer, tz, gets, tv_library, movie_library,
                   unwatched_media, deleteVars, titleVars, arrVars>>

\* A GET raises (requests.get, or decoding its answer): nothing catches it.
\* In _grab_content_library the Sonarr GET raises and nothing is assigned,
\* or the Radarr GET raises after self._tv_library was assigned.  In
\* get_unwatched_media either section GET raises before all_media_data is
\* assigned.  In get_arr_info the get_metadata GET raises.
GetRaises ==
    /\ \/ /\ pc = "grab"
          /\ \/ /\ gets' = gets + 1
                /\ UNCHANGED tv_library
             \/ /\ gets' = gets + 2
                /\ tv_library' \in ShowLibraries
          /\ UNCHANGED <<movie_library, raw_media_data, all_media_data, looked_up>>
       \/ /\ pc = "fetch"
          /\ \E n \in 1..2 : gets' = gets + n
          /\ UNCHANGED <<fetchVars, looked_up>>
       \/ /\ pc = "loop"
          /\ idx <= Len(all_media_data)
          /\ NeverPlayed(all_media_data[idx].last_played)
          /\ gets' = gets + 1
          /\ looked_up' = looked_up \cup {all_media_data[idx].rating_key}
          /\ UNCHANGED fetchVars
    /\ pc' = "fault_get"
    /\ exit_status' = "1"
    /\ UNCHANGED <<fileVars, skip_answer, tz, idx, metadata, unwatched_media,
                   deleteVars, titleVars, arrVars>>

\* notify_discrepancies (prints only), then json.dump to the result file.
NotifyAndSave ==
    /\ pc = "notify"
    /\ file_exists' = TRUE
    /\ file_text' = json_dump(unwatched_media)
    /\ file_writes' = file_writes + 1
    /\ pc' = "load"
    /\ UNCHANGED <<exit_status, skip_answer, tz, gets, fetchVars, loopVars, unwatched_media,
                   deleteVars, titleVars, arrVars>>

\* json.load of the result file into self.unwatched_media.
LoadResults ==
    /\ pc = "load"
    /\ unwatched_media' = json_load(file_text)
    /\ counter' = 1
    /\ pc' = "delete"
    /\ UNCHANGED <<exit_status, fileVars, skip_answer, tz, gets, fetchVars, loopVars,
                   prompts, deletes, delete_stdout, titleVars, arrVars>>

\* One pass of delete_media's loop: the prompt, and on a yes the DELETE and
\* the line printed for its status, or the exception nothing catches.
DeletePrompt ==
    /\ pc = "delete"
    /\ counter <= Len(unwatched_media)
    /\ \E answer \in DeleteAnswers :
        LET media == unwatched_media[counter]
        IN  /\ prompts' = Append(prompts, [counter |-> counter,
                                           total |-> Len(unwatched_media),
                                           media |-> media, answer |-> answer])
            /\ IF Confirms(answer)
               THEN \E status_code \in DeleteResponses :
                      /\ deletes' = Append(deletes, [counter |-> counter,
                                                     url |-> delete_url(media),
                                                     status_code |-> status_code])
                      /\ IF status_code = NoResponse
                         THEN /\ pc' = "fault_delete"
                              /\ exit_status' = "1"
                              /\ UNCHANGED <<counter, delete_stdout>>
                         ELSE /\ delete_stdout' =
                                   Append(delete_stdout,
                                          <<IF status_code = 200 THEN "Deleted"
                                            ELSE "Failed to delete", media.title>>)
                              /\ counter' = counter + 1
                              /\ UNCHANGED <<pc, exit_status>>
               ELSE /\ counter' = counter + 1
                    /\ UNCHANGED <<pc, exit_status, deletes, delete_stdout>>
    /\ UNCHANGED <<fileVars, skip_answer, tz, gets, fetchVars, loopVars, unwatched_media,
                   titleVars, arrVars>>

\* delete_media returns and the process ends.
DeleteReturn ==
    /\ pc = "delete"
    /\ counter > Len(unwatched_media)
    /\ pc' = "done"
    /\ exit_status' = "0"
    /\ UNCHANGED <<fileVars, skip_answer, tz, gets, fetchVars, loopVars, unwatched_media,
                   deleteVars, titleVars, arrVars>>

NextMain ==
    \/ MainNoFile
    \/ MainSkipPrompt
    \/ GrabContentLibrary
    \/ FetchSections
    \/ FilterRecent
    \/ LoopPlayed
    \/ LoopNeverPlayed
    \/ LoopReturn
    \/ GetRaises
    \/ NotifyAndSave
    \/ LoadResults
    \/ DeletePrompt
    \/ DeleteReturn

(***************************************************************************)
(* The specifications.  Each runs one part; the variables of the others    *)
(* stay as they are.                                                       *)
(***************************************************************************)
TitleIdle == t_pc = "idle" /\ t_title = <<>> /\ t_once = <<>> /\ t_twice = <<>>

ArrIdle ==
    a_pc = "idle" /\ a_library = <<>> /\ a_metadata = NoneRec /\ a_result = NoneRec

MainIdle ==
    /\ pc = "idle"
    /\ exit_status = "running"
    /\ file_exists = FALSE
    /\ file_text = <<>>
    /\ file_writes = 0
    /\ skip_answer = NoneVal
    /\ tz = Utc
    /\ gets = 0
    /\ tv_library = <<>>
    /\ movie_library = <<>>
    /\ raw_media_data = <<>>
    /\ all_media_data = <<>>
    /\ idx = 0
    /\ looked_up = {}
    /\ metadata = NoneRec
    /\ unwatched_media = <<>>
    /\ counter = 0
    /\ prompts = <<>>
    /\ deletes = <<>>
    /\ delete_stdout = <<>>

Init == InitMain /\ TitleIdle /\ ArrIdle
Next == NextMain
Spec == Init /\ [][Next]_vars

InitSpecTitle == InitTitle /\ ArrIdle /\ MainIdle
SpecTitle == InitSpecTitle /\ [][NextTitle]_vars

InitSpecArr == InitArr /\ TitleIdle /\ MainIdle
SpecArr == InitSpecArr /\ [][NextArr]_vars

(***************************************************************************)
(* The properties of the workflow.                                         *)
(***************************************************************************)
HasMarker(path) == "(Do Not Delete)" \in Range(path)
Emitted(title) == \E j \in DOMAIN unwatched_media : unwatched_media[j].title = title
InGetUnwatchedMedia == pc \in {"loop", "exit1", "fault_get"}
InDeleteMedia == pc \in {"delete", "done", "fault_delete"}

\* C1: an entry whose last_played is present and not zero is never looked
\* up and never gets an item in unwatched_media.
C1_PlayedNeverEmitted ==
    InGetUnwatchedMedia =>
        \A k \in DOMAIN raw_media_data :
            (raw_media_data[k].last_played # NoneInt /\ raw_media_data[k].last_played # 0) =>
                /\ raw_media_data[k].rating_key \notin looked_up
                /\ ~Emitted(raw_media_data[k].title)

\* The loop is over: a played entry that passed the age filter was left
\* out, a never-played one got its item.
C1_Witness ==
    /\ pc = "loop"
    /\ idx > Len(all_media_data)
    /\ Len(all_media_data) = 2
    /\ all_media_data[1].last_played = PlayedAt
    /\ all_media_data[2].last_played = 0
    /\ Emitted(all_media_data[2].title)
    /\ ~Emitted(all_media_data[1].title)

\* C2: an item resolved (by ID or by title) to a library entry whose path
\* holds "(Do Not Delete)" is not appended, so no item of unwatched_media,
\* of the file this run wrote, or of a prompt of this run has such a path.
C2_ProtectedNeverEmitted ==
    /\ (pc = "loop" /\ looked_up # {}) =>
          LET r == get_arr_info(metadata, tv_library, movie_library)
          IN  (r.arr_info # NoneRec /\ HasMarker(r.arr_info.path)) =>
                  ~Emitted(MediaTitle(Max(looked_up)))
    /\ (gets > 0) =>
          /\ \A j \in DOMAIN unwatched_media : ~HasMarker(unwatched_media[j].path)
          /\ file_writes > 0 =>
                \A j \in DOMAIN file_text : ~HasMarker(JsonValue(file_text[j], "path"))
          /\ \A j \in DOMAIN prompts : ~HasMarker(prompts[j].media.path)

\* The last item looked up resolved by title to a protected entry.
C2_Witness ==
    /\ pc = "loop"
    /\ looked_up # {}
    /\ get_arr_info(metadata, tv_library, movie_library).how = "fuzzy"
    /\ HasMarker(get_arr_info(metadata, tv_library, movie_library).arr_info.path)
    /\ unwatched_media = <<>>

\* C3 (as claimed): an entry added fewer than 60 days (of 86400 seconds)
\* before now is never looked up and never emitted, whatever its
\* last_played; every item emitted is of an entry at least that old.
C3_RecentNeverEmitted ==
    InGetUnwatchedMedia =>
        /\ \A k \in DOMAIN raw_media_data :
              (Now - raw_media_data[k].added_at < Days * SecondsPerDay) =>
                  /\ raw_media_data[k].rating_key \notin looked_up
                  /\ ~Emitted(raw_media_data[k].title)
        /\ \A j \in DOMAIN unwatched_media :
              \E k \in DOMAIN raw_media_data :
                  /\ raw_media_data[k].title = unwatched_media[j].title
                  /\ Now - raw_media_data[k].added_at >= Days * SecondsPerDay

\* How far the local wall clock ran ahead of (or behind) the elapsed time
\* between t and now: the change of the UTC offset.
OffsetChange(t) == UtcOffset(tz, Now) - UtcOffset(tz, t)

\* C3 (amended): the 60 days are days of the local wall clock.  An entry
\* whose age plus the change of the UTC offset since it was added is under
\* 60 times 86400 seconds is never looked up and never emitted, whatever its
\* last_played; every item emitted is of an entry for which it is at least
\* that.
C3_LocalRecentNeverEmitted ==
    InGetUnwatchedMedia =>
        /\ \A k \in DOMAIN raw_media_data :
              (Now - raw_media_data[k].added_at + OffsetChange(raw_media_data[k].added_at)
                  < Days * SecondsPerDay) =>
                  /\ raw_media_data[k].rating_key \notin looked_up
                  /\ ~Emitted(raw_media_data[k].title)
        /\ \A j \in DOMAIN unwatched_media :
              \E k \in DOMAIN raw_media_data :
                  /\ raw_media_data[k].title = unwatched_media[j].title
                  /\ Now - raw_media_data[k].added_at
                        + OffsetChange(raw_media_data[k].added_at) >= Days * SecondsPerDay

\* The clocks went forward since: an entry 59 days and 23 hours old got its
\* item; a never-played one added a second later did not.
C3_Witness ==
    /\ pc = "loop"
    /\ idx > Len(all_media_data)
    /\ tz = SpringForward
    /\ Len(raw_media_data) = 2
    /\ raw_media_data[1].added_at = Now - Days * SecondsPerDay + 3601
    /\ raw_media_data[1].last_played = NoneInt
    /\ raw_media_data[2].added_at = Now - Days * SecondsPerDay + 3600
    /\ Emitted(raw_media_data[2].title)
    /\ ~Emitted(raw_media_data[1].title)

\* C6: an item whose prompt is answered with anything but "y"/"Y" gets no
\* DELETE, and delete_media changes neither unwatched_media nor the file.
C6_DeclineLeavesItem ==
    /\ [](\A k \in DOMAIN prompts :
            (prompts[k].answer \notin {"y", "Y"}) =>
                \A d \in DOMAIN deletes : deletes[d].counter # prompts[k].counter)
    /\ [](InDeleteMedia => unwatched_media = json_load(file_text))
    /\ [][pc = "delete" => UNCHANGED <<unwatched_media, fileVars>>]_vars

\* Two stored items: "yes" declined the first, "Y" deleted the second.
C6_Witness ==
    /\ pc = "done"
    /\ Len(prompts) = 2
    /\ prompts[1].answer = "yes"
    /\ prompts[2].answer = "Y"
    /\ Len(deletes) = 1
    /\ deletes[1].counter = 2
    /\ Len(unwatched_media) = 2

\* C7 (as claimed): a DELETE that fails, by a status other than 200 or by
\* raising, is reported by a line for its item and the workflow goes on, so
\* the run never ends inside delete_media and every item is prompted once.
C7_FailureReportedAndContinues ==
    /\ \A d \in DOMAIN deletes :
          deletes[d].status_code # 200 =>
              \E j \in DOMAIN delete_stdout :
                  delete_stdout[j] =
                      <<"Failed to delete", unwatched_media[deletes[d].counter].title>>
    /\ pc # "fault_delete"
    /\ (exit_status # "running" /\ InDeleteMedia) =>
          /\ Len(prompts) = Len(unwatched_media)
          /\ \A k \in DOMAIN prompts : prompts[k].counter = k

\* C7, the part the code keeps: a DELETE answered with a status other than
\* 200 is reported, and a run that does not raise prompts every item once,
\* in order.
C7_StatusFailureReported ==
    /\ \A d \in DOMAIN deletes :
          deletes[d].status_code \notin {200, NoResponse} =>
              \E j \in DOMAIN delete_stdout :
                  delete_stdout[j] =
                      <<"Failed to delete", unwatched_media[deletes[d].counter].title>>
    /\ pc = "done" =>
          /\ Len(prompts) = Len(unwatched_media)
          /\ \A k \in DOMAIN prompts :
                /\ prompts[k].counter = k
                /\ prompts[k].media = unwatched_media[k]
                /\ prompts[k].total = Len(unwatched_media)

\* C8: a media type that is neither "movie" nor "show" ends the process
\* with status 1 at that item: nothing runs after it, the file is not
\* written and nothing is prompted; a lookup with no metadata or no match
\* leaves the run going.
C8_InvalidKindIsFatal ==
    /\ (pc \in {"loop", "exit1"} /\ looked_up # {}) =>
          (pc = "exit1" <=>
              (metadata # NoneRec /\ metadata.media_type \notin {"movie", "show"}))
    /\ pc = "exit1" =>
          /\ exit_status = "1"
          /\ file_writes = 0
          /\ prompts = <<>>
          /\ deletes = <<>>
          /\ idx <= Len(all_media_data)
          /\ all_media_data[idx].rating_key = Max(looked_up)
          /\ ~ENABLED Next
    /\ (pc = "loop" /\ looked_up # {}) =>
          /\ exit_status = "running"
          /\ \A p \in DOMAIN all_media_data :
                all_media_data[p].rating_key \in looked_up => p < idx
          /\ ENABLED Next

\* The first of two never-played items has an invalid type: the process
\* exited there and the second was never looked up.
C8_Witness ==
    /\ pc = "exit1"
    /\ Len(all_media_data) = 2
    /\ idx = 1
    /\ NeverPlayed(all_media_data[2].last_played)
    /\ looked_up = {all_media_data[1].rating_key}
    /\ metadata.media_type = "artist"

Skipped == skip_answer \notin {NoneVal, "n", "N"}

\* C10: with the result file present and an answer other than "n"/"N" the
\* run issues no GET and does not write the file; without the file (and
\* then without a prompt) or on "n" it reconciles and writes the result to
\* the file; delete_media works on what was loaded from the file.
C10_SkipOrRefresh ==
    /\ (file_writes = 0 /\ ~file_exists) => skip_answer = NoneVal
    /\ (pc # "main" /\ Skipped) => (gets = 0 /\ file_writes = 0)
    /\ (pc \in {"load", "delete", "done", "fault_delete"} /\ ~Skipped) =>
          (gets >= 4 /\ file_writes = 1 /\ file_exists)
    /\ (pc = "load" /\ ~Skipped) => file_text = json_dump(unwatched_media)
    /\ InDeleteMedia =>
          /\ file_exists
          /\ unwatched_media = json_load(file_text)
          /\ \A k \in DOMAIN prompts : prompts[k].media = unwatched_media[prompts[k].counter]

\* The refresh was skipped on an empty answer and delete_media is at work
\* on the two items of the old file.
C10_Witness ==
    /\ pc = "delete"
    /\ skip_answer = ""
    /\ gets = 0
    /\ file_writes = 0
    /\ unwatched_media = <<OldItem(5), OldItem(6)>>
    /\ Len(prompts) = 1
====
